---- MODULE Spec2Model ----
(***************************************************************************)
(* The research loop of src/src/agent.ts: getResponse(question,            *)
(* tokenBudget).  One step of the while loop is split at every await, so   *)
(* that a collaborator's failure and the concurrent page fetches of a      *)
(* deep dive are visible.                                                  *)
(***************************************************************************)
EXTENDS Integers, Sequences, FiniteSets, TLC

\* ------------------------------------------------------------------ bounds
\* Steps of the while loop a run may start (the loop itself has no cap).
MaxStep == 3
\* Largest token budget a run is started with.
MaxBudget == 2
\* Largest token count one collaborator call reports.
MaxUsage == 1

\* ------------------------------------------------------------------ inputs
\* The original question, process.argv[2].
question == "Q0"

\* A decision or reader call reports no usage (counted as 0) or MaxUsage tokens.
Budgets == 0..MaxBudget
Usages == {0, MaxUsage}

Range(s) == {s[i] : i \in DOMAIN s}

\* questionsToAnswer lists the oracle may propose: "q1" is a rephrasing of
\* "Q1", "Q0" is the original question.
CandidateLists ==
    {<<>>, <<"Q1">>, <<"Q0">>, <<"Q1", "q1">>, <<"q1", "Q2">>, <<"Q2", "Q2">>}
\* Query lists rewriteQuery may return.
RewrittenLists == {<<>>, <<"k1">>, <<"k1", "k2">>, <<"k2", "k2">>}
\* URLTargets lists the oracle may propose (the empty list is an absent field).
UrlLists == {<<>>, <<"u1">>, <<"u1", "u2">>}

\* ----------------------------------------------------------- the action
\* The parsed oracle response.  An optional field is a sequence of length 0
\* (absent) or 1 (present); URLTargets is the list itself (absent = empty).
MkAction(kind, sq, urls, ans, refs, qs) ==
    [action |-> kind, searchQuery |-> sq, URLTargets |-> urls,
     answer |-> ans, references |-> refs, questionsToAnswer |-> qs]

NoAction == MkAction("none", <<>>, <<>>, <<>>, <<>>, <<>>)

SearchActions == {MkAction("search", sq, <<>>, <<>>, <<>>, <<>>) : sq \in {<<>>, <<"sq">>}}
DeepDiveActions == {MkAction("deep dive", <<>>, u, <<>>, <<>>, <<>>) : u \in UrlLists}
AnswerActions == {MkAction("answer", <<>>, <<>>, <<"a">>, r, <<>>) : r \in {<<>>, <<"ref">>}}
ReflectActions ==
    {MkAction("reflect", <<>>, <<>>, <<>>, <<>>, qs) :
        qs \in {<<>>} \cup {<<c>> : c \in CandidateLists}}

\* What JSON.parse(response.text()) can yield.  The code does not validate the
\* action against getSchema(allowReflect), so "reflect" can arrive in any step.
OracleActions == SearchActions \cup DeepDiveActions \cup AnswerActions \cup ReflectActions

\* getSchema: the action tags the response schema offers the oracle.
getSchema(allow) ==
    IF allow THEN {"search", "deep dive", "answer", "reflect"}
    ELSE {"search", "deep dive", "answer"}

\* ------------------------------------------------------- dedupQueries
\* The semantic-equivalence judgment of the dedup oracle: texts are compared
\* after normalisation, so a rephrasing collapses onto the question it repeats.
Norm(s) == IF s = "q1" THEN "Q1" ELSE s
SameMeaning(a, b) == Norm(a) = Norm(b)

RECURSIVE dedupQueries(_, _)
dedupQueries(cands, known) ==
    IF cands = <<>> THEN <<>>
    ELSE LET h == Head(cands)
             dup == \E i \in DOMAIN known : SameMeaning(known[i], h)
         IN IF dup THEN dedupQueries(Tail(cands), known)
            ELSE <<h>> \o dedupQueries(Tail(cands), Append(known, h))

\* getPrompt: what the prompt text is built from.  The bad context and the
\* context are quoted when not empty; the known questions only with reflect.
getPrompt(q, ctx, known, allow, bad) ==
    [question |-> q, context |-> ctx, badContext |-> bad, allowReflect |-> allow,
     allQuestions |-> IF allow THEN known ELSE <<>>]

\* const prompt = getPrompt(currentQuestion, context, allQuestions, allowReflect):
\* the call passes four arguments, so getPrompt's badContext is undefined.
PromptOfStep(q, ctx, known, allow, bad) == getPrompt(q, ctx, known, allow, <<>>)

VARIABLES
    tokenBudget,      \* parameter of getResponse
    totalTokens, context, step, gaps, allQuestions, allKeywords, badContext,
    pc,               \* position inside getResponse
    allowReflect, currentQuestion, action, evaluation,   \* locals of one step
    keywordsQueries,  \* queries of the search loop not yet sent
    searchResults,    \* local of the search branch
    fetches,          \* the promises handed to Promise.all by the current deep dive
    orphans,          \* fetches still in flight whose Promise.all already rejected
    searched,         \* every query sent to the search provider, in order
    result,           \* the value getResponse resolved with
    error,            \* the call whose failure getResponse rejected with
    prompt            \* local of one step: what the decision request carries

vars == <<tokenBudget, totalTokens, context, step, gaps, allQuestions, allKeywords,
          badContext, pc, allowReflect, currentQuestion, action, evaluation,
          keywordsQueries, searchResults, fetches, orphans, searched, result, error,
          prompt>>

stepLocals == <<allowReflect, currentQuestion, prompt, action, evaluation>>
searchLocals == <<keywordsQueries, searchResults>>
registries == <<allQuestions, allKeywords>>
outcome == <<result, error>>

Terminal == {"returned", "exhausted", "thrown"}

Init ==
    /\ tokenBudget \in Budgets
    /\ totalTokens = 0
    /\ context = <<>>
    /\ step = 0
    /\ gaps = <<question>>
    /\ allQuestions = <<question>>
    /\ allKeywords = <<>>
    /\ badContext = <<>>
    /\ pc = "loop"
    /\ allowReflect = FALSE
    /\ currentQuestion = question
    /\ action = NoAction
    /\ evaluation = "none"
    /\ keywordsQueries = <<>>
    /\ searchResults = <<>>
    /\ fetches = <<>>
    /\ orphans = 0
    /\ searched = <<>>
    /\ result = NoAction
    /\ error = "none"
    /\ prompt = getPrompt(question, <<>>, <<>>, FALSE, <<>>)

\* --------------------------------------------------- pieces of a step
\* while (totalTokens < tokenBudget)
LoopTest(t, b) == t < b

\* Faulty variant: reflect is allowed with two questions pending.
AllowReflectUpToTwo(g) == Len(g) <= 2

\* const allowReflect = gaps.length <= 1
AllowReflect(g) == Len(g) <= 1

\* const currentQuestion = gaps.length > 0 ? gaps.shift()! : question
CurrentQuestion(g) == IF Len(g) > 0 THEN Head(g) ELSE question
GapsAfterShift(g) == IF Len(g) > 0 THEN Tail(g) ELSE g

\* Faulty variant: the reported tokens are not added.
AddUsageDropped(t, u) == t

\* totalTokens += usage?.totalTokenCount || 0
AddUsage(t, u) == t + u

\* {step, question: currentQuestion, ...action, result}
Entry(n, q, act, res) == [step |-> n, question |-> q, act |-> act, result |-> res]

\* Faulty variant: the return value loses the references of the answer.
ReturnWithoutReferences(act) == [act EXCEPT !.references = <<>>]

\* if (evaluation) return action
Accepts(ev, act) == ev = "true"
ReturnValue(act) == act

\* Faulty variant: only the rejected answer entry is kept as a bad attempt.
BadOnlyAnswer(bad, ctx) == Append(bad, ctx[Len(ctx)])

\* badContext.push(...context); context = []
BadAfterReject(bad, ctx) == bad \o ctx
ContextAfterReject(ctx) == <<>>

\* Faulty variant: the proposed questions are taken as they come.
NewGapQuestionsUnfiltered(cands, known) == cands

\* newGapQuestions: action.questionsToAnswer, deduplicated when allQuestions.length
NewGapQuestions(cands, known) ==
    IF Len(known) > 0 THEN dedupQueries(cands, known) ELSE cands

\* Faulty variant: the original question is not pushed back after a reflect.
GapsWithoutOriginal(g, new) == g \o new
\* Faulty variant: the original question is pushed before the new questions.
GapsOriginalFirst(g, new) == (g \o <<question>>) \o new

\* gaps.push(...newGapQuestions); gaps.push(question)
GapsAfterReflect(g, new) == (g \o new) \o <<question>>
\* allQuestions.push(...newGapQuestions)
QuestionsAfterReflect(known, new) == known \o new

\* keywordsQueries: the rewritten queries, deduplicated when allKeywords.length
KeywordsToSend(kq, known) ==
    IF Len(known) > 0 THEN dedupQueries(kq, known) ELSE kq

\* urlResults.reduce((sum, r) => sum + r.result.data.usage.tokens, 0)
RECURSIVE SumTokens(_)
SumTokens(fs) == IF fs = <<>> THEN 0 ELSE Head(fs).tokens + SumTokens(Tail(fs))

InFlight(fs) == {i \in DOMAIN fs : fs[i].st = "inflight"}
Failed(fs) == {i \in DOMAIN fs : fs[i].st = "failed"}

\* The actions the response schema of a step offers.
SchemaActions(allow) == {a \in OracleActions : a.action \in getSchema(allow)}

\* ------------------------------------------------------------- actions
\* The loop test fails: the while loop ends and getResponse resolves with
\* undefined.
LoopExit ==
    /\ pc = "loop"
    /\ ~LoopTest(totalTokens, tokenBudget)
    /\ pc' = "exhausted"
    /\ UNCHANGED <<tokenBudget, totalTokens, context, step, gaps, registries, badContext,
                   stepLocals, searchLocals, fetches, orphans, searched, outcome>>

\* Lines 236-244: the loop test holds; step++, allowReflect, currentQuestion,
\* prompt.
Select ==
    /\ pc = "loop"
    /\ LoopTest(totalTokens, tokenBudget)
    /\ step < MaxStep
    /\ step' = step + 1
    /\ allowReflect' = AllowReflect(gaps)
    /\ currentQuestion' = CurrentQuestion(gaps)
    /\ gaps' = GapsAfterShift(gaps)
    /\ prompt' = PromptOfStep(CurrentQuestion(gaps), context, allQuestions,
                              AllowReflect(gaps), badContext)
    /\ action' = NoAction
    /\ evaluation' = "none"
    /\ pc' = "decide"
    /\ UNCHANGED <<tokenBudget, totalTokens, context, registries, badContext,
                   searchLocals, fetches, orphans, searched, outcome>>

\* Lines 256-264: the decision call, the token accounting and JSON.parse.
\* Neither await nor JSON.parse is inside a try: a failure rejects getResponse.
DecideRejects ==                                  \* generateContent rejects
    /\ pc = "decide"
    /\ pc' = "thrown"
    /\ error' = "generateContent"
    /\ UNCHANGED <<tokenBudget, totalTokens, context, step, gaps, registries, badContext,
                   stepLocals, searchLocals, fetches, orphans, searched, result>>

DecideUnparseable ==                              \* response.text() is not JSON
    /\ pc = "decide"
    /\ \E u \in Usages : totalTokens' = AddUsage(totalTokens, u)
    /\ pc' = "thrown"
    /\ error' = "JSON.parse"
    /\ UNCHANGED <<tokenBudget, context, step, gaps, registries, badContext,
                   stepLocals, searchLocals, fetches, orphans, searched, result>>

DecideParsed(S, U) ==
    /\ pc = "decide"
    /\ \E u \in U, a \in S :
         /\ totalTokens' = AddUsage(totalTokens, u)
         /\ action' = a
    /\ pc' = "act"
    /\ UNCHANGED <<tokenBudget, context, step, gaps, registries, badContext, allowReflect,
                   currentQuestion, prompt, evaluation, searchLocals, fetches, orphans,
                   searched, outcome>>

Decide ==
    \/ DecideRejects
    \/ DecideUnparseable
    \/ DecideParsed(OracleActions, Usages)

\* The decision call of an oracle that keeps to the response schema.
DecideInSchema ==
    \/ DecideRejects
    \/ DecideUnparseable
    \/ DecideParsed(SchemaActions(allowReflect), Usages)

\* Lines 266-272: an answer is recorded; one for the original question goes
\* to the evaluator.
Answer ==
    /\ pc = "act"
    /\ action.action = "answer"
    /\ context' = Append(context, Entry(step, currentQuestion, action, <<>>))
    /\ pc' = IF currentQuestion = question THEN "evaluate" ELSE "store"
    /\ UNCHANGED <<tokenBudget, totalTokens, step, gaps, registries, badContext,
                   stepLocals, searchLocals, fetches, orphans, searched, outcome>>

\* Lines 273-279: evaluateAnswer and what follows it.  The await is not inside
\* a try: a rejection rejects getResponse.
EvaluateRejects ==
    /\ pc = "evaluate"
    /\ evaluation' = "throw"
    /\ pc' = "thrown"
    /\ error' = "evaluateAnswer"
    /\ UNCHANGED <<tokenBudget, totalTokens, context, step, gaps, registries, badContext,
                   allowReflect, currentQuestion, prompt, action, searchLocals, fetches,
                   orphans, searched, result>>

EvaluateResolves ==
    /\ pc = "evaluate"
    /\ \E ev \in {"true", "false"} :
         /\ evaluation' = ev
         /\ IF Accepts(ev, action)
               THEN /\ pc' = "returned"
                    /\ result' = ReturnValue(action)
                    /\ UNCHANGED <<context, badContext>>
            ELSE /\ badContext' = BadAfterReject(badContext, context)
                 /\ context' = ContextAfterReject(context)
                 /\ pc' = "store"
                 /\ UNCHANGED result
    /\ UNCHANGED <<tokenBudget, totalTokens, step, gaps, registries, allowReflect,
                   currentQuestion, prompt, action, searchLocals, fetches, orphans,
                   searched, error>>

Evaluate ==
    \/ EvaluateRejects
    \/ EvaluateResolves

\* Lines 283-291: reflect with a questionsToAnswer list.  dedupQueries is
\* awaited outside the try: a rejection rejects getResponse.
ReflectRejects ==
    /\ pc = "act"
    /\ action.action = "reflect"
    /\ action.questionsToAnswer # <<>>
    /\ Len(allQuestions) > 0
    /\ pc' = "thrown"
    /\ error' = "dedupQueries"
    /\ UNCHANGED <<tokenBudget, totalTokens, context, step, gaps, registries, badContext,
                   stepLocals, searchLocals, fetches, orphans, searched, result>>

ReflectApplied ==
    /\ pc = "act"
    /\ action.action = "reflect"
    /\ action.questionsToAnswer # <<>>
    /\ LET new == NewGapQuestions(action.questionsToAnswer[1], allQuestions)
       IN /\ gaps' = GapsAfterReflect(gaps, new)
          /\ allQuestions' = QuestionsAfterReflect(allQuestions, new)
    /\ pc' = "store"
    /\ UNCHANGED <<tokenBudget, totalTokens, context, step, allKeywords, badContext,
                   stepLocals, searchLocals, fetches, orphans, searched, outcome>>

Reflect ==
    \/ ReflectRejects
    \/ ReflectApplied

\* An action whose tag has no payload: no branch of lines 266-337 runs.
Skip ==
    /\ pc = "act"
    /\ \/ action.action = "reflect" /\ action.questionsToAnswer = <<>>
       \/ action.action = "search" /\ action.searchQuery = <<>>
       \/ action.action = "deep dive" /\ Len(action.URLTargets) = 0
    /\ pc' = "store"
    /\ UNCHANGED <<tokenBudget, totalTokens, context, step, gaps, registries, badContext,
                   stepLocals, searchLocals, fetches, orphans, searched, outcome>>

\* Lines 295-302: rewriteQuery, then dedupQueries when allKeywords is not
\* empty.  Both awaits are inside the try: a rejection is caught and logged.
SearchRejects ==
    /\ pc = "act"
    /\ action.action = "search"
    /\ action.searchQuery # <<>>
    /\ \/ TRUE                                    \* rewriteQuery rejects
       \/ Len(allKeywords) > 0                    \* dedupQueries rejects
    /\ pc' = "store"
    /\ UNCHANGED <<tokenBudget, totalTokens, context, step, gaps, registries, badContext,
                   stepLocals, searchLocals, fetches, orphans, searched, outcome>>

SearchRewritten ==
    /\ pc = "act"
    /\ action.action = "search"
    /\ action.searchQuery # <<>>
    /\ \E kq \in RewrittenLists :
         keywordsQueries' = KeywordsToSend(kq, allKeywords)
    /\ searchResults' = <<>>
    /\ pc' = "searching"
    /\ UNCHANGED <<tokenBudget, totalTokens, context, step, gaps, registries, badContext,
                   stepLocals, fetches, orphans, searched, outcome>>

Search ==
    \/ SearchRejects
    \/ SearchRewritten

\* Lines 303-315: one iteration of the for loop over keywordsQueries.
SearchQueryRejects ==                             \* search() rejects: caught
    /\ pc = "searching"
    /\ keywordsQueries # <<>>
    /\ searched' = Append(searched, Head(keywordsQueries))
    /\ searchResults' = <<>>
    /\ keywordsQueries' = <<>>
    /\ pc' = "store"
    /\ UNCHANGED <<tokenBudget, totalTokens, context, step, gaps, registries, badContext,
                   stepLocals, fetches, orphans, outcome>>

SearchQueryResolves ==
    /\ pc = "searching"
    /\ keywordsQueries # <<>>
    /\ LET query == Head(keywordsQueries)
       IN /\ searched' = Append(searched, query)
          /\ searchResults' =
                Append(searchResults, [query |-> query, results |-> "minResults"])
          /\ allKeywords' = Append(allKeywords, query)
    /\ keywordsQueries' = Tail(keywordsQueries)
    /\ pc' = "searching"
    /\ UNCHANGED <<tokenBudget, totalTokens, context, step, gaps, allQuestions, badContext,
                   stepLocals, fetches, orphans, outcome>>

SearchQuery ==
    \/ SearchQueryRejects
    \/ SearchQueryResolves

\* Lines 317-322: the for loop is over; the search entry is recorded.
SearchDone ==
    /\ pc = "searching"
    /\ keywordsQueries = <<>>
    /\ context' = Append(context, Entry(step, currentQuestion, action, searchResults))
    /\ searchResults' = <<>>
    /\ pc' = "store"
    /\ UNCHANGED <<tokenBudget, totalTokens, step, gaps, registries, badContext,
                   stepLocals, keywordsQueries, fetches, orphans, searched, outcome>>

\* Lines 324-328: URLTargets.map starts one readUrl per URL and hands the
\* promises to Promise.all.
DeepDive ==
    /\ pc = "act"
    /\ action.action = "deep dive"
    /\ Len(action.URLTargets) > 0
    /\ fetches' = [i \in DOMAIN action.URLTargets |->
                     [url |-> action.URLTargets[i], st |-> "inflight", tokens |-> 0]]
    /\ pc' = "joining"
    /\ UNCHANGED <<tokenBudget, totalTokens, context, step, gaps, registries, badContext,
                   stepLocals, searchLocals, orphans, searched, outcome>>

\* One readUrl of the pending Promise.all settles: it resolves with the
\* reader's token count or rejects.
FetchResolves ==
    /\ pc = "joining"
    /\ Failed(fetches) = {}
    /\ \E i \in InFlight(fetches), u \in Usages :
         fetches' = [fetches EXCEPT ![i] = [@ EXCEPT !.st = "ok", !.tokens = u]]
    /\ UNCHANGED <<tokenBudget, totalTokens, context, step, gaps, registries, badContext,
                   pc, stepLocals, searchLocals, orphans, searched, outcome>>

FetchRejects ==
    /\ pc = "joining"
    /\ Failed(fetches) = {}
    /\ \E i \in InFlight(fetches) :
         fetches' = [fetches EXCEPT ![i] = [@ EXCEPT !.st = "failed"]]
    /\ UNCHANGED <<tokenBudget, totalTokens, context, step, gaps, registries, badContext,
                   pc, stepLocals, searchLocals, orphans, searched, outcome>>

FetchComplete ==
    \/ FetchResolves
    \/ FetchRejects

\* Lines 330-336: Promise.all resolved; the entry is recorded and the reader's
\* tokens are added.
DeepDiveJoin ==
    /\ pc = "joining"
    /\ InFlight(fetches) = {}
    /\ Failed(fetches) = {}
    /\ context' = Append(context,
          Entry(step, currentQuestion, action,
                [i \in DOMAIN fetches |->
                    [url |-> fetches[i].url, result |-> fetches[i].tokens]]))
    /\ totalTokens' = AddUsage(totalTokens, SumTokens(fetches))
    /\ fetches' = <<>>
    /\ pc' = "store"
    /\ UNCHANGED <<tokenBudget, step, gaps, registries, badContext, stepLocals,
                   searchLocals, orphans, searched, outcome>>

\* Lines 338-340: Promise.all rejects with the first rejection; the catch logs
\* it.  The other fetches of the batch are not awaited.
DeepDiveReject ==
    /\ pc = "joining"
    /\ Failed(fetches) # {}
    /\ orphans' = orphans + Cardinality(InFlight(fetches))
    /\ fetches' = <<>>
    /\ pc' = "store"
    /\ UNCHANGED <<tokenBudget, totalTokens, context, step, gaps, registries, badContext,
                   stepLocals, searchLocals, searched, outcome>>

\* A readUrl that nobody awaits any more settles.
OrphanComplete ==
    /\ orphans > 0
    /\ orphans' = orphans - 1
    /\ UNCHANGED <<tokenBudget, totalTokens, context, step, gaps, registries, badContext,
                   pc, stepLocals, searchLocals, fetches, searched, outcome>>

\* Line 341: storeContext (it catches its own write errors); back to the
\* loop test.
StoreContext ==
    /\ pc = "store"
    /\ pc' = "loop"
    /\ UNCHANGED <<tokenBudget, totalTokens, context, step, gaps, registries, badContext,
                   stepLocals, searchLocals, fetches, orphans, searched, outcome>>

Next ==
    \/ LoopExit
    \/ Select
    \/ Decide
    \/ Answer
    \/ Evaluate
    \/ Reflect
    \/ Skip
    \/ Search
    \/ SearchQuery
    \/ SearchDone
    \/ DeepDive
    \/ FetchComplete
    \/ DeepDiveJoin
    \/ DeepDiveReject
    \/ OrphanComplete
    \/ StoreContext

Spec == Init /\ [][Next]_vars

\* The loop with an oracle that keeps to the response schema of each step
\* (reflect only when allowReflect).
NextInSchema ==
    \/ LoopExit
    \/ Select
    \/ DecideInSchema
    \/ Answer
    \/ Evaluate
    \/ Reflect
    \/ Skip
    \/ Search
    \/ SearchQuery
    \/ SearchDone
    \/ DeepDive
    \/ FetchComplete
    \/ DeepDiveJoin
    \/ DeepDiveReject
    \/ OrphanComplete
    \/ StoreContext

SchemaSpec == Init /\ [][NextInSchema]_vars

\* The loop when no collaborator call fails and every decision call reports
\* at least one token.
PaidUsages == Usages \ {0}

DecidePaid == DecideParsed(OracleActions, PaidUsages)

NextNoFailure ==
    \/ LoopExit
    \/ Select
    \/ DecidePaid
    \/ Answer
    \/ EvaluateResolves
    \/ ReflectApplied
    \/ Skip
    \/ SearchRewritten
    \/ SearchQueryResolves
    \/ SearchDone
    \/ DeepDive
    \/ FetchResolves
    \/ DeepDiveJoin
    \/ StoreContext

\* getResponse is one async function: whenever the call it awaits has
\* resolved, the event loop runs its continuation.  No call hangs.
LiveSpec == Init /\ [][NextNoFailure]_vars /\ WF_vars(NextNoFailure)

\* ================================================================ claims
IsPrefix(s, t) == Len(s) <= Len(t) /\ SubSeq(t, 1, Len(s)) = s

ReferencesRequired ==
    (evaluation = "true" /\ action.references = <<>>) => pc \notin Terminal

\* ---------------------------------------------------------------- C3
\* C3: when the loop test finds totalTokens >= tokenBudget the run ends with
\* an answer, never without one.
ForcedAnswerOnExhaustion ==
    pc = "exhausted" => result.action = "answer"

\* ---------------------------------------------------------------- C4
\* C4: when the evaluator call fails, the run goes on: the context has been
\* moved to the bad-attempt log and nothing is returned.
EvaluationFailsClosed ==
    evaluation = "throw" =>
        /\ pc \notin Terminal
        /\ context = <<>>
        /\ badContext # <<>>
        /\ result = NoAction

AcceptedAnswerReturned ==
    /\ [](evaluation = "true" /\ action.references # <<>> =>
             /\ pc = "returned"
             /\ currentQuestion = question
             /\ action \in AnswerActions
             /\ result = action)
    /\ [](pc # "returned" => result = NoAction)
    /\ [][pc = "returned" =>
             /\ pc' = "returned"
             /\ UNCHANGED <<totalTokens, context, step, gaps, registries, badContext,
                            stepLocals, searchLocals, fetches, searched, result>>]_vars

\* The run has returned an answer that carries references.
ReturnedReferencedAnswer ==
    /\ pc = "returned"
    /\ evaluation = "true"
    /\ result.action = "answer"
    /\ result.references # <<>>

\* ---------------------------------------------------------------- C7
\* C7: a reflect with a questionsToAnswer list leaves the gap queue equal to
\* its content after the pop, then the questions dedupQueries returned (in
\* order), then the original question; the registry gains exactly the
\* returned questions, and a candidate that was not returned is added to
\* neither.
ReflectEffect ==
    [][(pc = "act" /\ action.action = "reflect" /\ action.questionsToAnswer # <<>>
          /\ pc' = "store") =>
          LET cands == action.questionsToAnswer[1]
              surv == dedupQueries(cands, allQuestions)
              dropped == Range(cands) \ Range(surv)
          IN /\ gaps' = (gaps \o surv) \o <<question>>
             /\ allQuestions' = allQuestions \o surv
             /\ \A c \in dropped :
                   /\ c \notin Range(SubSeq(allQuestions', Len(allQuestions) + 1,
                                            Len(allQuestions')))
                   /\ c \notin Range(SubSeq(gaps', Len(gaps) + 1, Len(gaps') - 1))]_vars

\* A reflect proposed "Q1" and its rephrasing "q1": only "Q1" was queued
\* and registered, followed in the queue by the original question.
ReflectKeptOneOfTwo ==
    /\ pc = "store"
    /\ action.action = "reflect"
    /\ action.questionsToAnswer = << <<"Q1", "q1">> >>
    /\ gaps = <<"Q1", question>>
    /\ allQuestions = <<question, "Q1">>

\* ---------------------------------------------------------------- C8
\* C8: totalTokens never decreases, and the tokens a call reports are added to
\* it also when the step fails: at the end of a deep dive totalTokens has
\* grown by the tokens of every fetch that succeeded.
TokensAlwaysCharged ==
    [][/\ totalTokens' >= totalTokens
       /\ (pc = "joining" /\ pc' = "store") =>
             totalTokens' = totalTokens + SumTokens(fetches)]_vars

\* ---------------------------------------------------------------- C9
\* C9: a query sent to the search provider is not yet in allKeywords, and
\* allKeywords gains one entry for it, also when the provider call fails.
SentQueriesNovelAndRecorded ==
    [][searched' # searched =>
          LET query == searched'[Len(searched')]
          IN /\ query \notin Range(allKeywords)
             /\ allKeywords' = Append(allKeywords, query)]_vars

ReflectCapped ==
    /\ [][(pc = "loop" /\ pc' = "decide") =>
             (allowReflect' <=> Len(gaps) <= 1)]_vars
    /\ [][(pc = "act" /\ ~allowReflect) => UNCHANGED <<gaps, allQuestions>>]_vars

\* ---------------------------------------------------------------- C12
\* The kinds of action that the step just finished ran without gaining
\* anything: a search of which no query was left to send, a deep dive of which
\* every URL had been fetched by an earlier recorded deep dive, a reflect of
\* which no question survived dedupQueries.
EarlierUrls ==
    UNION {Range(e.act.URLTargets) :
             e \in Range(badContext) \cup Range(SubSeq(context, 1, Len(context) - 1))}

UnproductiveKinds ==
    LET recorded == context # <<>> /\ context[Len(context)].step = step
        last == context[Len(context)]
    IN {k \in {"search"} :
           recorded /\ last.act.action = "search" /\ last.result = <<>>}
       \cup
       {k \in {"deep dive"} :
           recorded /\ last.act.action = "deep dive"
                    /\ Range(last.act.URLTargets) \subseteq EarlierUrls}
       \cup
       {k \in {"reflect"} :
           /\ action.action = "reflect" /\ action.questionsToAnswer # <<>>
           /\ allowReflect /\ gaps = <<question>>}

\* C12: a kind of action that ran without gaining anything is not among the
\* actions offered to the oracle in the next step.
UnproductiveKindDisabled ==
    [][(pc = "loop" /\ pc' = "decide" /\ step > 0) =>
          UnproductiveKinds \cap getSchema(allowReflect') = {}]_vars

\* ---------------------------------------------------------------- C13
\* C13: every decision request carries the whole bad-attempt log, and the
\* bad-attempt log is never cleared or shortened.
BadAttemptsReachOracle ==
    /\ [](pc = "decide" => prompt.badContext = badContext)
    /\ [][IsPrefix(badContext, badContext')]_vars

\* ---------------------------------------------------------------- C14
\* C14: a deep dive of which one fetch failed and another succeeded still records an entry with one
\* {url, result} pair per requested URL and adds the tokens of the fetches
\* that succeeded.
DeepDiveSurvivesFailure ==
    [][(pc = "joining" /\ pc' = "store" /\ Failed(fetches) # {}
          /\ \E i \in DOMAIN fetches : fetches[i].st = "ok") =>
          /\ Len(context') = Len(context) + 1
          /\ context'[Len(context')].act = action
          /\ Len(context'[Len(context')].result) = Len(action.URLTargets)
          /\ totalTokens' = totalTokens + SumTokens(fetches)]_vars

\* ---------------------------------------------------------------- C15
\* An action that violates the schema of its step: a tag the schema does not
\* offer, or a tag without the field it needs.
Malformed(act, allow) ==
    \/ act.action \notin getSchema(allow)
    \/ act.action = "search" /\ act.searchQuery = <<>>
    \/ act.action = "deep dive" /\ Len(act.URLTargets) = 0
    \/ act.action = "reflect" /\ act.questionsToAnswer = <<>>
    \/ act.action = "answer" /\ act.answer = <<>>

\* C15: an unparseable response never ends the run, and a malformed action is
\* never acted upon: the step either asks again or is abandoned with context,
\* registries and bad-attempt log untouched and its question back in the gap
\* queue.
MalformedActionHandled ==
    /\ [](error # "JSON.parse")
    /\ [][(pc = "act" /\ Malformed(action, allowReflect)) =>
             /\ pc' \in {"act", "decide", "store"}
             /\ UNCHANGED <<context, registries, badContext>>
             /\ pc' = "store" => currentQuestion \in Range(gaps')]_vars

\* ---------------------------------------------------------------- C16
\* C16: getResponse never ends because the decision call, dedupQueries,
\* rewriteQuery, the search provider or the page reader failed.
CollaboratorFailureSurvived ==
    error \notin {"generateContent", "dedupQueries", "rewriteQuery", "search", "readUrl"}

\* ---------------------------------------------------------------- C17
\* C17: outside the deep dive that started them no page fetch is in flight: a
\* step ends, and the next one selects its question, only after every fetch
\* has settled.
FetchesJoined ==
    pc # "joining" => orphans = 0 /\ InFlight(fetches) = {}

\* ---------------------------------------------------------------- C18
InStep == {"decide", "act", "evaluate", "searching", "joining", "store"}

\* C18: the budget is looked at only at the loop test, and a step that has
\* started runs to completion.  A step starts only with
\* totalTokens < tokenBudget; the run ends for exhaustion only from the loop
\* test; once totalTokens >= tokenBudget holds at the loop test no new step
\* is started; and a step in progress ends only by reaching the next loop
\* test or by returning the accepted answer, whatever totalTokens has become.
StepRunsToCompletion ==
    /\ [][(pc = "loop" /\ pc' = "decide") => totalTokens < tokenBudget]_vars
    /\ [][(pc # "exhausted" /\ pc' = "exhausted") =>
             pc = "loop" /\ totalTokens >= tokenBudget]_vars
    /\ [][(pc = "loop" /\ totalTokens >= tokenBudget) =>
             pc' \in {"loop", "exhausted"} /\ step' = step]_vars
    /\ [][(pc \in InStep) => (pc' \in InStep \cup {"loop", "returned"})]_vars

Termination ==
    <>(pc = "returned" \/ (pc = "exhausted" /\ totalTokens >= tokenBudget))

\* The run has left the loop after as many paid steps as the budget allows.
ExhaustedAfterPaidSteps ==
    /\ pc = "exhausted"
    /\ tokenBudget = MaxBudget
    /\ step > 0
    /\ totalTokens >= tokenBudget

\* With decision calls that report no tokens the loop test still holds after
\* MaxStep steps: totalTokens has not moved.
FreeStepsGoOn ==
    /\ pc = "loop"
    /\ step = MaxStep
    /\ totalTokens = 0
    /\ LoopTest(totalTokens, tokenBudget)

====
